---- MODULE Spec2Model ----
(***************************************************************************)
(* A model of src/main.rs: the exchange-rate notifier.  One process runs   *)
(* main(): it reads two credentials, then loops forever; every iteration   *)
(* (a tick) fetches four market-data pages, one ticker, derives the lira   *)
(* price, builds the message, posts it and sleeps.  The steps of the model *)
(* are the stretches of main() between two suspension points (.await).     *)
(*                                                                         *)
(* Text is a sequence of one-character strings.  Characters that are not   *)
(* ASCII are written by name: "ZWNJ" is U+200C, "LF" a line feed, "FA1",   *)
(* "FA0" and "FA5" the Persian digits U+06F1, U+06F0, U+06F5, and "ARSEP"  *)
(* the Arabic thousands separator U+066C.                                  *)
(*                                                                         *)
(* An f64 is a record: a finite value n/d (d > 0), or inf, ninf, nan.      *)
(* Finite arithmetic is exact rational arithmetic.  On the values the      *)
(* model feeds it (CrossLasts, and the prices PageTexts parse to) every    *)
(* quotient is either an integer reached through exactly representable     *)
(* intermediate values or at least 1/100000 away from an integer, so the   *)
(* IEEE-754 double result has the same ceiling as the exact quotient.      *)
(***************************************************************************)
EXTENDS Integers, Sequences, FiniteSets, TLC

VARIABLES
    env,                 \* the process environment: variable name -> value
    pc,                  \* where main() is
    bot_token,           \* main.rs:115
    chat_id,             \* main.rs:116
    rates,               \* main.rs:136, the HashMap of this tick: tag -> i64
    idx,                 \* position of the for loop of main.rs:138 in urls
    rate_tr,             \* main.rs:158, an f64
    toman_per_lira_i64,  \* main.rs:170, the result of the f64 -> i64 cast
    text,                \* main.rs:174, the message, a sequence of segments
    io,                  \* the requests and sleeps of this tick, in order
    seen,                \* tags whose fetch succeeded in an earlier tick
    probe                \* one call of a function alone: its input and result

vars == <<env, pc, bot_token, chat_id, rates, idx, rate_tr,
          toman_per_lira_i64, text, io, seen, probe>>

-----------------------------------------------------------------------------
(* Bounds and input sets *)

\* Longest data array of a ticker response the model feeds the fetcher.
MaxDataLen == 3

\* Longest inner text of the exhaustive set the extractor is called on alone.
MaxTextLen == 3

EmptyMap == [t \in {} |-> 0]

NoValue == "<none>"

Fin(n, d) == [k |-> "fin", n |-> n, d |-> d]

Inf == [k |-> "inf", n |-> 0, d |-> 1]

NegInf == [k |-> "ninf", n |-> 0, d |-> 1]

NaN == [k |-> "nan", n |-> 0, d |-> 1]

\* The `last` values a ticker entry may carry: 34.20, 30.00, 0.0 and -2.5.
CrossLasts == {Fin(342, 10), Fin(30, 1), Fin(0, 1), Fin(-5, 2)}

\* Inner texts of the price element that every market-data page may serve:
\* 1050005 with spaces between the groups, -15, Persian digits, a line feed
\* between digits, a lone sign, nothing.
CommonTexts ==
    { <<"1", " ", "0", "5", "0", " ", "0", "0", "5">>,
      <<"-", "1", "5">>,
      <<"FA1", "ARSEP", "FA0", "FA5", "FA0">>,
      <<"1", "LF", "2">>,
      <<"-">>,
      <<>> }

\* Inner texts only the page of the dollar serves: 1,050,000 and 900,000 in
\* three spellings.
DollarTexts ==
    { <<"1", ",", "0", "5", "0", ",", "0", "0", "0">>,
      <<" ", "9", "0", "0", ",", "0", "0", "0", "ZWNJ", "LF">>,
      <<"+", "9", "0", "0", "0", "0", "0">> }

PageTexts(name) ==
    IF name = "USD" THEN CommonTexts \cup DollarTexts ELSE CommonTexts

\* What one GET of the market-data page of `name` may come to
\* (main.rs:31-51).
PageResponses(name) ==
    { [kind |-> k, text |-> <<>>] :
        k \in {"request_error", "body_error", "no_element"} }
    \cup { [kind |-> "element", text |-> t] : t \in PageTexts(name) }

DataArrays == UNION { [1..n -> CrossLasts] : n \in 0..MaxDataLen }

\* What one GET of the ticker may come to (main.rs:68-78).
TickerResponses ==
    { [kind |-> k, success |-> FALSE, data |-> <<>>] :
        k \in {"request_error", "body_error", "json_error"} }
    \cup { [kind |-> "json", success |-> s, data |-> d] :
             s \in BOOLEAN, d \in DataArrays }

\* What the POST to the bot endpoint may come to (main.rs:94-108).
PostOutcomes == {"2xx", "non2xx_body", "non2xx_nobody", "transport_error"}

-----------------------------------------------------------------------------
(* Pure functions *)

Ok(v) == [ok |-> TRUE, v |-> v, err |-> ""]

Err(e) == [ok |-> FALSE, v |-> 0, err |-> e]

Digits == {"0", "1", "2", "3", "4", "5", "6", "7", "8", "9"}

DigitVal(c) ==
    CASE c = "0" -> 0 [] c = "1" -> 1 [] c = "2" -> 2 [] c = "3" -> 3
      [] c = "4" -> 4 [] c = "5" -> 5 [] c = "6" -> 6 [] c = "7" -> 7
      [] c = "8" -> 8 [] c = "9" -> 9

DigitChar(n) ==
    CASE n = 0 -> "0" [] n = 1 -> "1" [] n = 2 -> "2" [] n = 3 -> "3"
      [] n = 4 -> "4" [] n = 5 -> "5" [] n = 6 -> "6" [] n = 7 -> "7"
      [] n = 8 -> "8" [] n = 9 -> "9"

\* Unicode White_Space among the model's characters.
IsWhitespace(c) == c \in {" ", "LF"}

RECURSIVE TrimStart(_)
TrimStart(s) ==
    IF s # <<>> /\ IsWhitespace(Head(s)) THEN TrimStart(Tail(s)) ELSE s

RECURSIVE TrimEnd(_)
TrimEnd(s) ==
    IF s # <<>> /\ IsWhitespace(s[Len(s)])
    THEN TrimEnd(SubSeq(s, 1, Len(s) - 1))
    ELSE s

\* str::trim (main.rs:52)
Trim(s) == TrimEnd(TrimStart(s))

\* str::replace(c, "") for a one-character pattern (main.rs:55-57)
RECURSIVE Remove(_, _)
Remove(s, c) ==
    IF s = <<>> THEN <<>>
    ELSE IF Head(s) = c THEN Remove(Tail(s), c)
    ELSE <<Head(s)>> \o Remove(Tail(s), c)

\* The cleaning without its last replace().
CleanKeepsZwnj(raw) == Remove(Remove(raw, ","), " ")

\* main.rs:54-57
Clean(raw) == Remove(Remove(Remove(raw, ","), " "), "ZWNJ")

RECURSIVE DigitsValue(_, _)
DigitsValue(s, acc) ==
    IF s = <<>> THEN acc ELSE DigitsValue(Tail(s), 10 * acc + DigitVal(Head(s)))

RECURSIVE StripZeros(_)
StripZeros(s) ==
    IF s # <<>> /\ Head(s) = "0" THEN StripZeros(Tail(s)) ELSE s

\* a <= b for two digit strings of the same length.
RECURSIVE DigitsLeq(_, _)
DigitsLeq(a, b) ==
    IF a = <<>> THEN TRUE
    ELSE IF Head(a) # Head(b) THEN DigitVal(Head(a)) < DigitVal(Head(b))
    ELSE DigitsLeq(Tail(a), Tail(b))

\* The digits of i64::MAX, 9223372036854775807.
I64MaxDigits ==
    <<"9", "2", "2", "3", "3", "7", "2", "0", "3", "6",
      "8", "5", "4", "7", "7", "5", "8", "0", "7">>

\* Whether the digits name a magnitude an i64 of that sign can hold:
\* at most i64::MAX, or 9223372036854775808 below zero.
FitsI64(body, negative) ==
    LET d     == StripZeros(body)
        limit == IF negative
                 THEN SubSeq(I64MaxDigits, 1, 18) \o <<"8">>
                 ELSE I64MaxDigits
    IN  \/ Len(d) < Len(limit)
        \/ Len(d) = Len(limit) /\ DigitsLeq(d, limit)

\* str::parse::<i64> (main.rs:58): an optional sign, then one or more ASCII
\* digits, of a value an i64 holds.  A value is computed only when it fits;
\* the texts of the model that fit have at most nine digits.
ParseI64(s) ==
    LET signed   == s # <<>> /\ Head(s) \in {"+", "-"}
        negative == signed /\ Head(s) = "-"
        body     == IF signed THEN Tail(s) ELSE s
    IN  IF body = <<>> THEN Err("cannot parse integer from empty string")
        ELSE IF \E i \in 1..Len(body) : body[i] \notin Digits
        THEN Err("invalid digit found in string")
        ELSE IF ~FitsI64(body, negative)
        THEN Err("number too large or too small to fit in target type")
        ELSE IF negative THEN Ok(0 - DigitsValue(body, 0))
        ELSE Ok(DigitsValue(body, 0))

\* fetch_tgju_rate (main.rs:30-65) on the outcome of its GET.
fetch_tgju_rate(resp) ==
    CASE resp.kind = "request_error" -> Err("Request error")
      [] resp.kind = "body_error"    -> Err("Read body error")
      [] resp.kind = "no_element"    -> Err("Selector not found")
      [] resp.kind = "element"       ->
            LET r == ParseI64(Clean(Trim(resp.text)))
            IN  IF r.ok THEN Ok(r.v) ELSE Err("Parse int error")

\* fetch_usdt_try without the test of `success`: data[0].last of whatever
\* the exchange answered.
fetch_usdt_try_unchecked(resp) ==
    CASE resp.kind = "request_error" -> Err("BTCTurk request error")
      [] resp.kind = "body_error"    -> Err("BTCTurk read body error")
      [] resp.kind = "json_error"    -> Err("BTCTurk json parse error")
      [] resp.kind = "json"          ->
            IF resp.data # <<>>
            THEN Ok(resp.data[1])
            ELSE Err("BTCTurk responded with success=false or empty data")

\* fetch_usdt_try (main.rs:67-89) on the outcome of its GET.
fetch_usdt_try(resp) ==
    CASE resp.kind = "request_error" -> Err("BTCTurk request error")
      [] resp.kind = "body_error"    -> Err("BTCTurk read body error")
      [] resp.kind = "json_error"    -> Err("BTCTurk json parse error")
      [] resp.kind = "json"          ->
            IF resp.success /\ resp.data # <<>>
            THEN Ok(resp.data[1])
            ELSE Err("BTCTurk responded with success=false or empty data")

\* A division that rounds up instead.
CeilDiv(a, b) == 0 - ((0 - a) \div b)

\* Rust's integer division truncates toward zero (main.rs:178-187).
TruncDiv(a, b) ==
    IF a >= 0 THEN a \div b ELSE 0 - ((0 - a) \div b)

RECURSIVE NatDigits(_)
NatDigits(n) ==
    IF n < 10 THEN <<DigitChar(n)>>
    ELSE NatDigits(n \div 10) \o <<DigitChar(n % 10)>>

\* Digit groups of three, counted from the right, separated by a comma.
RECURSIVE Grouped(_)
Grouped(ds) ==
    IF Len(ds) <= 3 THEN ds
    ELSE Grouped(SubSeq(ds, 1, Len(ds) - 3))
         \o <<",">> \o SubSeq(ds, Len(ds) - 2, Len(ds))

\* fmt_int (main.rs:22-24): to_formatted_string(&Locale::en)
fmt_int(n) ==
    IF n < 0 THEN <<"-">> \o Grouped(NatDigits(0 - n)) ELSE Grouped(NatDigits(n))

\* `as f64` of an i64 (main.rs:168): exact below 2^53.
AsF64(v) == Fin(v, 1)

\* f64 division (main.rs:169).  A zero divisor is +0.0: JSON text "0".
F64Div(a, b) ==
    CASE a.k = "nan" \/ b.k = "nan" -> NaN
      [] a.k = "fin" /\ b.k = "fin" ->
            IF b.n = 0
            THEN IF a.n > 0 THEN Inf ELSE IF a.n < 0 THEN NegInf ELSE NaN
            ELSE IF b.n > 0 THEN Fin(a.n * b.d, a.d * b.n)
            ELSE Fin(0 - a.n * b.d, 0 - a.d * b.n)
      [] a.k = "fin" -> Fin(0, 1)
      [] b.k = "fin" ->
            IF (a.k = "inf") = (b.n >= 0) THEN Inf ELSE NegInf
      [] OTHER -> NaN

\* f64::ceil (main.rs:27)
F64Ceil(x) ==
    IF x.k = "fin" THEN Fin(0 - ((0 - x.n) \div x.d), 1) ELSE x

\* An i64 as the cast of main.rs:27 yields it: a value, or one of the two
\* ends of the range, which the cast saturates to.
I64(v) == [sat |-> "no", v |-> v]

I64Max == [sat |-> "max", v |-> 0]

I64Min == [sat |-> "min", v |-> 0]

\* `as i64` of an f64 (main.rs:27): saturating, NaN to 0.
AsI64(x) ==
    CASE x.k = "fin"  -> I64(TruncDiv(x.n, x.d))
      [] x.k = "inf"  -> I64Max
      [] x.k = "ninf" -> I64Min
      [] x.k = "nan"  -> I64(0)

\* The cast without the ceil().
truncate_to_i64(v) == AsI64(v)

\* round_up_to_i64 (main.rs:26-28)
round_up_to_i64(v) == AsI64(F64Ceil(v))

\* main.rs:168-170
LiraPrice(usd, c) ==
    round_up_to_i64(F64Div(F64Div(AsF64(usd), c), Fin(10, 1)))

I64MaxText ==
    <<"9", ",", "2", "2", "3", ",", "3", "7", "2", ",", "0", "3", "6", ",",
      "8", "5", "4", ",", "7", "7", "5", ",", "8", "0", "7">>

\* fmt_int on the result of the cast (main.rs:192)
fmt_i64(x) ==
    CASE x.sat = "max" -> I64MaxText
      [] x.sat = "min" ->
            <<"-">> \o SubSeq(I64MaxText, 1, Len(I64MaxText) - 1) \o <<"8">>
      [] OTHER -> fmt_int(x.v)

-----------------------------------------------------------------------------
(* Configuration of main() *)

\* main.rs:118-123
urls ==
    << <<"USD", "https://www.tgju.org/profile/price_dollar_rl">>,
       <<"EUR", "https://www.tgju.org/profile/price_eur">>,
       <<"AED", "https://www.tgju.org/profile/price_aed">>,
       <<"CNY", "https://www.tgju.org/profile/sana_sell_cny">> >>

Tags == {urls[i][1] : i \in 1..Len(urls)}

\* The chain with its first two tests swapped.
LineOrderEurFirst == <<"EUR", "USD", "AED", "CNY">>

\* The tags of the `if let Some(v) = rates.get(..)` chain, main.rs:177-188.
LineOrder == <<"USD", "EUR", "AED", "CNY">>

\* The variables main() reads, main.rs:115-116.
Credentials == {"BOT_TOKEN", "CHANNEL_ID"}

EnvValue(name) == IF name = "BOT_TOKEN" THEN "123:abc" ELSE "@rates"

\* HashMap::insert (main.rs:141)
Insert(m, k, v) == [x \in DOMAIN m \cup {k} |-> IF x = k THEN v ELSE m[x]]

Seg(kind, val) == [seg |-> kind, val |-> val]

\* One quoted line of the message (main.rs:178, 181, 184, 187).
CurrencyLine(tag, v) == Seg(tag, fmt_int(TruncDiv(v, 10)))

\* The chain nested instead of sequential: a missing tag ends it.
RECURSIVE CurrencyLinesNested(_, _)
CurrencyLinesNested(r, order) ==
    IF order = <<>> \/ Head(order) \notin DOMAIN r THEN <<>>
    ELSE <<CurrencyLine(Head(order), r[Head(order)])>>
         \o CurrencyLinesNested(r, Tail(order))

\* main.rs:177-188: one line for each tag the snapshot holds.
RECURSIVE CurrencyLines(_, _)
CurrencyLines(r, order) ==
    IF order = <<>> THEN <<>>
    ELSE (IF Head(order) \in DOMAIN r
          THEN <<CurrencyLine(Head(order), r[Head(order)])>>
          ELSE <<>>)
         \o CurrencyLines(r, Tail(order))

\* main.rs:174-196
BuildText(r, lira, chat) ==
    <<Seg("header", <<>>)>>
    \o CurrencyLines(r, LineOrder)
    \o <<Seg("lira", fmt_i64(lira)), Seg("footer", <<>>), Seg("chat_id", <<chat>>)>>

\* No function is called alone.
Idle == [fn |-> "none", in |-> <<>>, out |-> <<>>]

Event(op, arg, ok) == [op |-> op, arg |-> arg, ok |-> ok]

SleepSites == {"sleep_no_usd", "sleep_no_cross", "sleep_tick"}

-----------------------------------------------------------------------------
(* The state machine *)

\* The state in which main() starts.
InitProgram ==
    /\ env \in { [n \in S |-> EnvValue(n)] : S \in SUBSET Credentials }
    /\ pc = "boot"
    /\ bot_token = NoValue
    /\ chat_id = NoValue
    /\ rates = EmptyMap
    /\ idx = 1
    /\ rate_tr = NaN
    /\ toman_per_lira_i64 = I64(0)
    /\ text = <<>>
    /\ io = <<>>
    /\ seen = {}

Init == InitProgram /\ probe = Idle

\* Startup with unwrap_or_default() in place of expect().
StartupDefaults ==
    /\ pc = "boot"
    /\ bot_token' = IF "BOT_TOKEN" \in DOMAIN env THEN env["BOT_TOKEN"] ELSE ""
    /\ chat_id' = IF "CHANNEL_ID" \in DOMAIN env THEN env["CHANNEL_ID"] ELSE ""
    /\ \E built \in BOOLEAN : pc' = IF built THEN "loop" ELSE "panicked"
    /\ UNCHANGED <<env, rates, idx, rate_tr, toman_per_lira_i64, text, io, seen, probe>>

\* main.rs:113-132: the two expect() calls panic on a missing variable, the
\* third on a client that cannot be built.
Startup ==
    /\ pc = "boot"
    /\ \E built \in BOOLEAN :
         IF "BOT_TOKEN" \notin DOMAIN env
         THEN /\ pc' = "panicked"
              /\ UNCHANGED <<bot_token, chat_id>>
         ELSE IF "CHANNEL_ID" \notin DOMAIN env
         THEN /\ pc' = "panicked"
              /\ bot_token' = env["BOT_TOKEN"]
              /\ UNCHANGED chat_id
         ELSE /\ bot_token' = env["BOT_TOKEN"]
              /\ chat_id' = env["CHANNEL_ID"]
              /\ pc' = IF built THEN "loop" ELSE "panicked"
    /\ UNCHANGED <<env, rates, idx, rate_tr, toman_per_lira_i64, text, io, seen, probe>>

\* The snapshot declared outside the loop: it survives the iteration.
LoopHeadKeepsSnapshot ==
    /\ pc = "loop"
    /\ idx' = 1
    /\ rate_tr' = NaN
    /\ toman_per_lira_i64' = I64(0)
    /\ text' = <<>>
    /\ io' = <<>>
    /\ seen' = seen \cup DOMAIN rates
    /\ pc' = "collect"
    /\ UNCHANGED <<env, bot_token, chat_id, rates, probe>>

\* main.rs:134-136: the head of the loop; the variables of the last
\* iteration are gone and the snapshot is new and empty.
LoopHead ==
    /\ pc = "loop"
    /\ rates' = EmptyMap
    /\ idx' = 1
    /\ rate_tr' = NaN
    /\ toman_per_lira_i64' = I64(0)
    /\ text' = <<>>
    /\ io' = <<>>
    /\ seen' = seen \cup DOMAIN rates
    /\ pc' = "collect"
    /\ UNCHANGED <<env, bot_token, chat_id, probe>>

\* The for loop with a break in its Err arm.
CollectOneStopsOnError ==
    /\ pc = "collect"
    /\ idx \in 1..Len(urls)
    /\ \E resp \in PageResponses(urls[idx][1]) :
         LET name == urls[idx][1]
             r    == fetch_tgju_rate(resp)
         IN  /\ rates' = IF r.ok THEN Insert(rates, name, r.v) ELSE rates
             /\ io' = Append(io, Event("GET", name, r.ok))
             /\ pc' = IF idx = Len(urls) \/ ~r.ok THEN "need_usd" ELSE "collect"
    /\ idx' = idx + 1
    /\ UNCHANGED <<env, bot_token, chat_id, rate_tr, toman_per_lira_i64, text, seen, probe>>

\* main.rs:138-148: one iteration of the for loop.
CollectOne ==
    /\ pc = "collect"
    /\ idx \in 1..Len(urls)
    /\ \E resp \in PageResponses(urls[idx][1]) :
         LET name == urls[idx][1]
             r    == fetch_tgju_rate(resp)
         IN  /\ rates' = IF r.ok THEN Insert(rates, name, r.v) ELSE rates
             /\ io' = Append(io, Event("GET", name, r.ok))
    /\ idx' = idx + 1
    /\ pc' = IF idx = Len(urls) THEN "need_usd" ELSE "collect"
    /\ UNCHANGED <<env, bot_token, chat_id, rate_tr, toman_per_lira_i64, text, seen, probe>>

\* The test of main.rs:151 left out.
NeedUsdIgnored ==
    /\ pc = "need_usd"
    /\ pc' = "cross"
    /\ UNCHANGED <<env, bot_token, chat_id, rates, idx, rate_tr,
                   toman_per_lira_i64, text, io, seen, probe>>

\* The test of main.rs:151 with a continue and no sleep.
NeedUsdSkipsSleep ==
    /\ pc = "need_usd"
    /\ pc' = IF "USD" \notin DOMAIN rates THEN "loop" ELSE "cross"
    /\ UNCHANGED <<env, bot_token, chat_id, rates, idx, rate_tr,
                   toman_per_lira_i64, text, io, seen, probe>>

\* The test of main.rs:151 on the wrong key.
NeedUsdChecksEur ==
    /\ pc = "need_usd"
    /\ pc' = IF "EUR" \notin DOMAIN rates THEN "sleep_no_usd" ELSE "cross"
    /\ UNCHANGED <<env, bot_token, chat_id, rates, idx, rate_tr,
                   toman_per_lira_i64, text, io, seen, probe>>

\* main.rs:150-155
NeedUsd ==
    /\ pc = "need_usd"
    /\ pc' = IF "USD" \notin DOMAIN rates THEN "sleep_no_usd" ELSE "cross"
    /\ UNCHANGED <<env, bot_token, chat_id, rates, idx, rate_tr,
                   toman_per_lira_i64, text, io, seen, probe>>

\* The Err arm without its sleep and continue: it yields a rate of 1.0.
FetchCrossFallsThrough ==
    /\ pc = "cross"
    /\ \E resp \in TickerResponses :
         LET r == fetch_usdt_try(resp)
         IN  /\ io' = Append(io, Event("GET", "USDT_TRY", r.ok))
             /\ rate_tr' = IF r.ok THEN r.v ELSE Fin(1, 1)
             /\ pc' = "convert"
    /\ UNCHANGED <<env, bot_token, chat_id, rates, idx, toman_per_lira_i64,
                   text, seen, probe>>

\* main.rs:157-165
FetchCross ==
    /\ pc = "cross"
    /\ \E resp \in TickerResponses :
         LET r == fetch_usdt_try(resp)
         IN  /\ io' = Append(io, Event("GET", "USDT_TRY", r.ok))
             /\ IF r.ok
                THEN rate_tr' = r.v /\ pc' = "convert"
                ELSE UNCHANGED rate_tr /\ pc' = "sleep_no_cross"
    /\ UNCHANGED <<env, bot_token, chat_id, rates, idx, toman_per_lira_i64,
                   text, seen, probe>>

\* A conversion that gives the tick up when any of the four tags is missing.
ConvertNeedsAll ==
    /\ pc = "convert"
    /\ IF Tags \subseteq DOMAIN rates
       THEN /\ toman_per_lira_i64' = LiraPrice(rates["USD"], rate_tr)
            /\ pc' = "build"
       ELSE /\ pc' = "sleep_tick"
            /\ UNCHANGED toman_per_lira_i64
    /\ UNCHANGED <<env, bot_token, chat_id, rates, idx, rate_tr, text, io, seen, probe>>

\* main.rs:167-170: unwrap() panics when the snapshot holds no USD.
Convert ==
    /\ pc = "convert"
    /\ IF "USD" \in DOMAIN rates
       THEN /\ toman_per_lira_i64' = LiraPrice(rates["USD"], rate_tr)
            /\ pc' = "build"
       ELSE /\ pc' = "panicked"
            /\ UNCHANGED toman_per_lira_i64
    /\ UNCHANGED <<env, bot_token, chat_id, rates, idx, rate_tr, text, io, seen, probe>>

\* main.rs:172-196
BuildMessage ==
    /\ pc = "build"
    /\ text' = BuildText(rates, toman_per_lira_i64, chat_id)
    /\ pc' = "send"
    /\ UNCHANGED <<env, bot_token, chat_id, rates, idx, rate_tr,
                   toman_per_lira_i64, io, seen, probe>>

\* A notifier that returns its error, and a caller that unwraps it.
AfterSendPropagates(outcome) ==
    IF outcome = "2xx" THEN "sleep_tick" ELSE "panicked"

\* A caller that sends again until the POST succeeds.
AfterSendRetries(outcome) ==
    IF outcome = "2xx" THEN "sleep_tick" ELSE "send"

\* Where main() goes when send_telegram_message returns (main.rs:199-202):
\* the function returns () on every outcome of the POST.
AfterSend(outcome) == "sleep_tick"

\* main.rs:198-199 with send_telegram_message (main.rs:91-109)
Send ==
    /\ pc = "send"
    /\ \E outcome \in PostOutcomes :
         /\ io' = Append(io, Event("POST", outcome, outcome = "2xx"))
         /\ pc' = AfterSend(outcome)
    /\ UNCHANGED <<env, bot_token, chat_id, rates, idx, rate_tr,
                   toman_per_lira_i64, text, seen, probe>>

\* main.rs:153-154, 162-163, 202: sleep a minute, then the next iteration.
Sleep ==
    /\ pc \in SleepSites
    /\ io' = Append(io, Event("SLEEP", pc, TRUE))
    /\ pc' = "loop"
    /\ UNCHANGED <<env, bot_token, chat_id, rates, idx, rate_tr,
                   toman_per_lira_i64, text, seen, probe>>

Next ==
    \/ Startup
    \/ LoopHead
    \/ CollectOne
    \/ NeedUsd
    \/ FetchCross
    \/ Convert
    \/ BuildMessage
    \/ Send
    \/ Sleep

Spec == Init /\ [][Next]_vars

\* Every network call and every sleep returns: main() is never suspended
\* forever, so a step that is possible is taken.
FairSpec == Spec /\ WF_vars(Next)

-----------------------------------------------------------------------------
(* fetch_usdt_try alone, on every response of TickerResponses *)

Pending == [ok |-> FALSE, v |-> 0, err |-> "pending"]

InitTicker ==
    /\ InitProgram
    /\ probe \in { [fn |-> "fetch_usdt_try", in |-> resp, out |-> Pending] :
                     resp \in TickerResponses }

CallTicker ==
    /\ probe.fn = "fetch_usdt_try"
    /\ probe.out.err = Pending.err
    /\ probe' = [probe EXCEPT !.out = fetch_usdt_try(probe.in)]
    /\ UNCHANGED <<env, pc, bot_token, chat_id, rates, idx, rate_tr,
                   toman_per_lira_i64, text, io, seen>>

NextTicker == CallTicker

SpecTicker == InitTicker /\ [][NextTicker]_vars

-----------------------------------------------------------------------------
(* fetch_tgju_rate alone, on every short inner text and a few long ones *)

\* The characters of the exhaustive texts: two digits, the three characters
\* the cleaning removes, the two signs, a line feed and a Persian digit.
TextChars == {"0", "7", ",", " ", "ZWNJ", "-", "+", "LF", "FA1"}

ShortTexts == UNION { [1..n -> TextChars] : n \in 0..MaxTextLen }

\* 9,223,372,036,854,775,808 (i64::MAX + 1), the same without commas and
\* with a leading zero, and -9223372036854775809 (i64::MIN - 1).
LongTexts ==
    { <<"9", ",", "2", "2", "3", ",", "3", "7", "2", ",", "0", "3", "6", ",",
        "8", "5", "4", ",", "7", "7", "5", ",", "8", "0", "8">>,
      <<"0", "9", "2", "2", "3", "3", "7", "2", "0", "3", "6",
        "8", "5", "4", "7", "7", "5", "8", "0", "8">>,
      <<"-", "9", "2", "2", "3", "3", "7", "2", "0", "3", "6",
        "8", "5", "4", "7", "7", "5", "8", "0", "9">> }

ExtractorResponses ==
    { [kind |-> k, text |-> <<>>] :
        k \in {"request_error", "body_error", "no_element"} }
    \cup { [kind |-> "element", text |-> t] : t \in ShortTexts \cup LongTexts }

InitExtractor ==
    /\ InitProgram
    /\ probe \in { [fn |-> "fetch_tgju_rate", in |-> resp, out |-> Pending] :
                     resp \in ExtractorResponses }

CallExtractor ==
    /\ probe.fn = "fetch_tgju_rate"
    /\ probe.out.err = Pending.err
    /\ probe' = [probe EXCEPT !.out = fetch_tgju_rate(probe.in)]
    /\ UNCHANGED <<env, pc, bot_token, chat_id, rates, idx, rate_tr,
                   toman_per_lira_i64, text, io, seen>>

NextExtractor == CallExtractor

SpecExtractor == InitExtractor /\ [][NextExtractor]_vars

-----------------------------------------------------------------------------
(* What a tick did, read from io and text *)

GetFailed(a) ==
    \E i \in DOMAIN io : io[i].op = "GET" /\ io[i].arg = a /\ ~io[i].ok

GetOk(a) ==
    \E i \in DOMAIN io : io[i].op = "GET" /\ io[i].arg = a /\ io[i].ok

Posts == {i \in DOMAIN io : io[i].op = "POST"}

Sleeps == {i \in DOMAIN io : io[i].op = "SLEEP"}

SegCount(kind) == Cardinality({i \in DOMAIN text : text[i].seg = kind})

HasLine(t) == SegCount(t) > 0

\* The number a formatted value shows, its commas dropped.
ReadNumber(s) ==
    LET t == Remove(s, ",")
    IN  IF Head(t) = "-" THEN 0 - DigitsValue(Tail(t), 0) ELSE DigitsValue(t, 0)

LiraShown == ReadNumber(text[CHOOSE i \in DOMAIN text : text[i].seg = "lira"].val)

TagRank(t) ==
    CASE t = "USD" -> 1 [] t = "EUR" -> 2 [] t = "AED" -> 3 [] t = "CNY" -> 4

-----------------------------------------------------------------------------
(* Claims *)

\* C1: in a tick whose USD fetch or cross-rate fetch failed, the notifier is
\* never invoked: no POST is issued, and the tick does not get as far as the
\* conversion, the message or the send, whatever EUR, AED and CNY did.
C1_NoPostWithoutUsdOrCross ==
    (GetFailed("USD") \/ GetFailed("USDT_TRY"))
        => (Posts = {} /\ text = <<>> /\ pc \notin {"convert", "build", "send"})

\* A finished tick in which only the USD fetch failed.
C1_Witness ==
    /\ pc = "loop"
    /\ Sleeps # {}
    /\ GetFailed("USD")
    /\ GetOk("EUR") /\ GetOk("AED") /\ GetOk("CNY")
    /\ Posts = {}

\* C2: the message of a tick holds no line for a tag whose fetch failed in
\* that tick, also when the tag was fetched in an earlier tick: the snapshot
\* of a tick holds exactly the tags fetched in it.
C2_NoLineForFailedTag ==
    \A t \in Tags : GetFailed(t) => (~HasLine(t) /\ t \notin DOMAIN rates)

\* A message was posted in a tick where the fetch of a tag failed that an
\* earlier tick had fetched.
C2_Witness ==
    /\ Posts # {}
    /\ \E t \in Tags : GetFailed(t) /\ t \in seen

\* C3: the currency lines of a message stand in the order USD, EUR, AED,
\* CNY, whichever of them are present.
C3_LinesInOrder ==
    \A i, j \in DOMAIN text :
        (i < j /\ text[i].seg \in Tags /\ text[j].seg \in Tags)
            => TagRank(text[i].seg) < TagRank(text[j].seg)

\* A posted message with all four lines.
C3_Witness ==
    /\ Posts # {}
    /\ \A t \in Tags : HasLine(t)

\* C4: with a cross-rate c > 0 the lira value of the message is the least
\* integer L with L >= u / c / 10, u the USD price of the tick: an exact
\* quotient is not incremented (900000, 30 give 3000), a fraction rounds up
\* (1050000, 34.20 give 3071).
C4_LiraIsCeiling ==
    (text # <<>> /\ rate_tr.k = "fin" /\ rate_tr.n > 0) =>
        LET u == rates["USD"]
            L == LiraShown
        IN  /\ L * 10 * rate_tr.n >= u * rate_tr.d
            /\ (L - 1) * 10 * rate_tr.n < u * rate_tr.d
            /\ (u = 900000 /\ rate_tr = Fin(30, 1)) => L = 3000
            /\ (u = 1050000 /\ rate_tr = Fin(342, 10)) => L = 3071

\* The message posted for USD 900000 and a cross-rate of 30 shows 3,000.
C4_Witness ==
    /\ Posts # {}
    /\ rates["USD"] = 900000
    /\ rate_tr = Fin(30, 1)
    /\ \E i \in DOMAIN text :
         text[i].seg = "lira" /\ text[i].val = <<"3", ",", "0", "0", "0">>

\* C5: the value shown in the line of tag X is the price of X in the snapshot
\* of the tick divided by 10 and truncated toward zero: a price that is not a
\* multiple of 10 loses its last digit and is not rounded up.
C5_DisplayIsTruncatedTenth ==
    \A i \in DOMAIN text :
        text[i].seg \in Tags =>
            /\ text[i].seg \in DOMAIN rates
            /\ LET v == rates[text[i].seg]
                   D == ReadNumber(text[i].val)
               IN  IF v >= 0
                   THEN 10 * D <= v /\ v < 10 * D + 10
                   ELSE 10 * D >= v /\ v > 10 * D - 10

\* A posted message with a line for a positive price that is not a multiple
\* of 10.
C5_Witness ==
    /\ Posts # {}
    /\ \E t \in Tags :
         t \in DOMAIN rates /\ rates[t] > 0 /\ rates[t] % 10 # 0 /\ HasLine(t)

\* C6: a message holds exactly one line for each tag fetched in its tick and
\* none for the others, one lira line, one header and one footer.
C6_ExactlyTheFetchedLines ==
    text # <<>> =>
        /\ \A t \in Tags : SegCount(t) = IF GetOk(t) THEN 1 ELSE 0
        /\ SegCount("lira") = 1
        /\ SegCount("header") = 1
        /\ SegCount("footer") = 1

\* A posted message of a tick where only the EUR fetch failed: header, three
\* quoted lines, the lira line, the footer and the channel identifier.
C6_Witness ==
    /\ Posts # {}
    /\ GetOk("USD") /\ GetFailed("EUR") /\ GetOk("AED") /\ GetOk("CNY")
    /\ HasLine("USD") /\ HasLine("AED") /\ HasLine("CNY")
    /\ Len(text) = 7

\* Where main() is while a tick is under way and has not yet come to a sleep.
BeforeSleep == {"loop", "collect", "need_usd", "cross", "convert", "build", "send"}

\* C7: once startup has succeeded the loop never ends: no step of a tick
\* panics, every tick comes to one of the sleeps whatever failed in it, and
\* after every sleep a new tick begins its first fetch.
C7_TickLoopNeverStops ==
    /\ [][pc \notin {"boot", "panicked"} => pc' # "panicked"]_vars
    /\ (pc \in BeforeSleep) ~> (pc \in SleepSites)
    /\ (pc \in SleepSites) ~> (pc = "collect" /\ idx = 1 /\ io = <<>>)

\* A tick in which the EUR fetch and the POST failed has slept and is back
\* at the head of the loop.
C7_Witness ==
    /\ pc = "loop"
    /\ GetFailed("EUR")
    /\ \E i \in Posts : ~io[i].ok
    /\ io[Len(io)].op = "SLEEP"

\* C8: whatever the POST came to, the step of the notifier leaves main()
\* before the sleep at the end of the tick with everything but the record of
\* the POST unchanged, the tick has issued exactly one POST, and the sleep
\* leads to the head of the loop and the next tick.
C8_NotifyFailureAbsorbed ==
    /\ [][pc = "send" =>
            /\ pc' = "sleep_tick"
            /\ Cardinality(Posts') = 1
            /\ UNCHANGED <<env, bot_token, chat_id, rates, idx, rate_tr,
                           toman_per_lira_i64, text, seen>>]_vars
    /\ [][pc = "sleep_tick" =>
            pc' = "loop" /\ Posts' = Posts /\ io'[Len(io')].op = "SLEEP"]_vars
    /\ [][(pc = "loop" /\ Posts # {}) => (pc' = "collect" /\ io' = <<>>)]_vars

\* A tick whose POST met a transport error or a non-2xx status has issued
\* that one POST, slept once and is at the head of the loop.
C8_Witness ==
    /\ pc = "loop"
    /\ \E i \in Posts : io[i].arg \in {"transport_error", "non2xx_body"}
    /\ Cardinality(Posts) = 1
    /\ Cardinality(Sleeps) = 1

\* C9: with BOT_TOKEN or CHANNEL_ID absent main() never leaves startup: it
\* issues no request of any kind; and wherever main() is past startup, both
\* credentials are the values read from the environment.
C9_NoLoopWithoutCredentials ==
    /\ ~(Credentials \subseteq DOMAIN env) =>
          (pc \in {"boot", "panicked"} /\ io = <<>> /\ rates = EmptyMap)
    /\ pc \notin {"boot", "panicked"} =>
          /\ Credentials \subseteq DOMAIN env
          /\ bot_token = env["BOT_TOKEN"]
          /\ chat_id = env["CHANNEL_ID"]

\* main() has panicked on the missing CHANNEL_ID, BOT_TOKEN being set.
C9_Witness ==
    /\ pc = "panicked"
    /\ "BOT_TOKEN" \in DOMAIN env
    /\ "CHANNEL_ID" \notin DOMAIN env
    /\ io = <<>>

\* C10: fetch_usdt_try succeeds exactly on a parsed response with success =
\* true and a non-empty data array, then returns the `last` of the first
\* entry; on success = false or an empty array it fails with the message
\* that says so.
C10_CrossRateOnlyOnSuccess ==
    (probe.fn = "fetch_usdt_try" /\ probe.out.err # Pending.err) =>
        LET resp == probe.in
            good == resp.kind = "json" /\ resp.success /\ Len(resp.data) > 0
        IN  /\ probe.out.ok <=> good
            /\ good => probe.out.v = resp.data[1]
            /\ (resp.kind = "json" /\ ~good) =>
                  probe.out.err = "BTCTurk responded with success=false or empty data"

\* The call has returned the first of two different entries.
C10_Witness ==
    /\ probe.fn = "fetch_usdt_try"
    /\ probe.out.ok
    /\ Len(probe.in.data) >= 2
    /\ probe.in.data[1] # probe.in.data[2]
    /\ probe.out.v = probe.in.data[1]

-----------------------------------------------------------------------------
(* The extractor, read from probe *)

Extracted ==
    /\ probe.fn = "fetch_tgju_rate"
    /\ probe.out.err # Pending.err
    /\ probe.in.kind = "element"

NotRemoved(c) == c \notin {",", " ", "ZWNJ"}

\* The text without ASCII commas, ASCII spaces and U+200C.
Stripped(t) == SelectSeq(t, NotRemoved)

SignOf(s) == IF s # <<>> /\ Head(s) \in {"+", "-"} THEN Head(s) ELSE ""

Unsigned(s) == IF SignOf(s) = "" THEN s ELSE Tail(s)

\* A decimal integer literal: an optional sign and one or more ASCII digits.
IsLiteral(s) ==
    Unsigned(s) # <<>> /\ \A i \in 1..Len(Unsigned(s)) : Unsigned(s)[i] \in Digits

\* The digits of the literal's magnitude, without leading zeros.
Magnitude(s) ==
    IF StripZeros(Unsigned(s)) = <<>> THEN <<"0">> ELSE StripZeros(Unsigned(s))

\* The literal's value lies between i64::MIN and i64::MAX.
WithinI64(s) ==
    LET max == Remove(I64MaxText, ",")
        m   == Magnitude(s)
    IN  \/ Len(m) < Len(max)
        \/ /\ Len(m) = Len(max)
           /\ \/ DigitsLeq(m, max)
              \/ SignOf(s) = "-" /\ DigitsLeq(m, SubSeq(max, 1, Len(max) - 1) \o <<"8">>)

\* The extractor returned the integer the literal s names.
ReturnsLiteral(s) ==
    /\ probe.out.ok
    /\ NatDigits(IF probe.out.v < 0 THEN 0 - probe.out.v ELSE probe.out.v)
           = Magnitude(s)
    /\ probe.out.v < 0 <=> (SignOf(s) = "-" /\ Magnitude(s) # <<"0">>)

\* C11 as stated: for every inner text whose form without commas, spaces and
\* U+200C is a decimal integer literal, the extractor returns that integer.
C11_EveryLiteralExtracted ==
    (Extracted /\ IsLiteral(Stripped(probe.in.text)))
        => ReturnsLiteral(Stripped(probe.in.text))

\* C11 amended: for every inner text whose form without commas, spaces and
\* U+200C is a decimal integer literal of a value between i64::MIN and
\* i64::MAX, the extractor returns that integer.
C11_LiteralWithinI64Extracted ==
    (Extracted /\ IsLiteral(Stripped(probe.in.text))
               /\ WithinI64(Stripped(probe.in.text)))
        => ReturnsLiteral(Stripped(probe.in.text))

\* The extractor returned 7 for a text with a comma and a U+200C.
C11_Witness ==
    /\ Extracted
    /\ \E i, j \in DOMAIN probe.in.text :
         probe.in.text[i] = "," /\ probe.in.text[j] = "ZWNJ"
    /\ IsLiteral(Stripped(probe.in.text))
    /\ probe.out.ok
    /\ probe.out.v = 7

\* C12 as stated: for every inner text whose form without commas, spaces and
\* U+200C holds a character that is not an ASCII digit, a leading sign
\* included, the extractor fails.
C12_NonDigitRejected ==
    (Extracted /\ \E i \in DOMAIN Stripped(probe.in.text) :
                     Stripped(probe.in.text)[i] \notin Digits)
        => ~probe.out.ok

-----------------------------------------------------------------------------
(* Claims about the tick loop, continued *)

\* C13 as stated: with a cross-rate c <= 0 the conversion refuses: no lira
\* price is computed from c and no message is built or posted in that tick.
C13_NonPositiveCrossRefused ==
    (rate_tr.k = "fin" /\ rate_tr.n <= 0)
        => (pc \notin {"build", "send"} /\ text = <<>> /\ Posts = {})

\* The states of the tick state machine: Collecting is "collect", HasUSD? is
\* "need_usd", HasCross? is "cross", Publishing is "convert", "build" and
\* "send", Sleeping is one of SleepSites.
NonTerminal == {"collect", "need_usd", "cross", "convert", "build", "send"}

\* The step is a failure: a request that failed, or the snapshot found
\* without USD.
FailedStep ==
    \/ Len(io') = Len(io) + 1 /\ ~io'[Len(io')].ok
    \/ pc = "need_usd" /\ "USD" \notin DOMAIN rates

\* C14 as stated: a failure in any non-terminal state moves the tick directly
\* to Sleeping.
C14_FailureGoesToSleeping ==
    [][(pc \in NonTerminal /\ FailedStep) => pc' \in SleepSites]_vars

\* C14 amended: a failure in HasUSD?, HasCross? or Publishing moves the tick
\* directly to Sleeping; a failed fetch in Collecting does not: the loop goes
\* on to the next endpoint, or after the last one to HasUSD?.
C14_FailurePastCollectingGoesToSleeping ==
    /\ [][(pc \in NonTerminal \ {"collect"} /\ FailedStep)
              => pc' \in SleepSites]_vars
    /\ [][(pc = "collect" /\ FailedStep)
              => /\ idx' = idx + 1
                 /\ pc' = IF idx = Len(urls) THEN "need_usd" ELSE "collect"]_vars

\* The failed cross-rate fetch has brought the tick to its sleep, with no
\* message built.
C14_Witness ==
    /\ pc = "sleep_no_cross"
    /\ GetFailed("USDT_TRY")
    /\ text = <<>>

IsPageGet(e) == e.op = "GET" /\ e.arg \in Tags

\* The tags of the market-data requests of the tick, in the order issued.
PageGets == [i \in DOMAIN SelectSeq(io, IsPageGet) |-> SelectSeq(io, IsPageGet)[i].arg]

PastCollecting ==
    pc \in {"need_usd", "cross", "convert", "build", "send"} \cup SleepSites
    \/ (pc = "loop" /\ io # <<>>)

\* C15: the market-data requests of a tick are USD, EUR, AED, CNY, each once
\* and in this order, before anything else; while collecting they are the
\* first idx - 1 of them, and once the loop is left all four, whichever
\* failed.
C15_FourFetchesInOrder ==
    /\ PageGets = SubSeq(<<"USD", "EUR", "AED", "CNY">>, 1, Len(PageGets))
    /\ \A i \in 1..Len(PageGets) : IsPageGet(io[i])
    /\ pc = "collect" => Len(PageGets) = idx - 1
    /\ PastCollecting => Len(PageGets) = 4

\* The loop is left with the first two fetches failed and the last two done.
C15_Witness ==
    /\ pc = "need_usd"
    /\ GetFailed("USD") /\ GetFailed("EUR")
    /\ GetOk("AED") /\ GetOk("CNY")

\* C16: the cross-rate request is the fifth request of its tick, after the
\* four market-data requests, and is issued only with USD in the snapshot; a
\* tick without USD sleeps without it.
C16_CrossAfterFourAndUsd ==
    /\ \A i \in DOMAIN io :
         io[i].arg = "USDT_TRY" =>
            /\ i = 5
            /\ \A j \in 1..4 : io[j].op = "GET" /\ io[j].arg = urls[j][1]
            /\ GetOk("USD")
    /\ pc = "cross" => (Len(io) = 4 /\ "USD" \in DOMAIN rates)
    /\ (pc = "sleep_no_usd" \/ GetFailed("USD")) =>
          (pc # "cross" /\ \A i \in DOMAIN io : io[i].arg # "USDT_TRY")

\* A tick without USD is over: four market-data requests and the sleep.
C16_Witness ==
    /\ pc = "loop"
    /\ Len(io) = 5
    /\ GetFailed("USD")
    /\ io[5] = Event("SLEEP", "sleep_no_usd", TRUE)

\* C17: a tick has not slept before it reaches its end, a finished tick has
\* slept exactly once, as its last act, and the first fetch of a tick is
\* reached only from the head of the loop.
C17_OneSleepPerTick ==
    /\ [](pc # "loop" => Sleeps = {})
    /\ []((pc = "loop" /\ io # <<>>) =>
             (Cardinality(Sleeps) = 1 /\ io[Len(io)].op = "SLEEP"))
    /\ [][(pc' = "collect" /\ pc # "collect") => pc = "loop"]_vars

\* A tick whose cross-rate fetch failed is over and has slept once.
C17_Witness ==
    /\ pc = "loop"
    /\ GetFailed("USDT_TRY")
    /\ Cardinality(Sleeps) = 1
    /\ io[Len(io)].arg = "sleep_no_cross"

\* C18: no tick posts twice; a tick whose USD and cross-rate fetches both
\* succeeded goes on to publish, and has posted exactly once when it sleeps.
C18_OnePostPerGoodTick ==
    /\ Cardinality(Posts) <= 1
    /\ (GetOk("USD") /\ GetOk("USDT_TRY")) =>
          /\ pc \in {"convert", "build", "send", "sleep_tick", "loop"}
          /\ pc \in {"sleep_tick", "loop"} => Cardinality(Posts) = 1

\* A finished tick in which only USD and the cross-rate were fetched has
\* posted once.
C18_Witness ==
    /\ pc = "loop"
    /\ GetOk("USD") /\ GetOk("USDT_TRY")
    /\ GetFailed("EUR") /\ GetFailed("AED") /\ GetFailed("CNY")
    /\ Cardinality(Posts) = 1

\* C19 as stated: every price in the snapshot is a non-negative integer.
C19_PricesNonNegative ==
    \A t \in DOMAIN rates : rates[t] >= 0

\* C20: the unwrap of main.rs:168 is reached only with USD in the snapshot,
\* and main() has panicked only during startup.
C20_UnwrapFindsUsd ==
    /\ pc = "convert" => ("USD" \in DOMAIN rates /\ GetOk("USD"))
    /\ pc = "panicked" => (io = <<>> /\ seen = {} /\ rates = EmptyMap)

\* The conversion is reached in a tick that follows ticks which fetched EUR
\* and never USD.
C20_Witness ==
    /\ pc = "convert"
    /\ "EUR" \in seen
    /\ "USD" \notin seen

====
